---- MODULE Spec2Model ----
(***************************************************************************)
(* A model of textnet/bootstrap_network.py: the bootstrap nearest-neighbour *)
(* estimator (bootstrap_neighbors), its time-grouped distance computation   *)
(* (time_grouped_pairwise_distances), the graph builder (to_graph), the     *)
(* convenience wrapper (bootstrap_network) and the generator of growing     *)
(* graphs (evolving_graphs).                                                *)
(*                                                                          *)
(* Conventions.  Rows and columns keep the source's 0-based indices.  A     *)
(* floating point value is a pair <<kind, v>> with kind one of "num",       *)
(* "inf", "ninf", "nan"; distances are whole multiples of half the          *)
(* tolerance of all_argmin (0.0005), so that two different distances can    *)
(* lie within the tolerance of each other.  A frequency is a fraction       *)
(* [num, den].  A timestamp is a whole number of ticks, TicksPerYear ticks  *)
(* to the calendar year.                                                    *)
(***************************************************************************)
EXTENDS Integers, Sequences, FiniteSets, TLC

\* ---------------------------------------------------------------- bounds
MaxN == 3          \* rows of X in the estimator
MaxWrappedN == 2   \* rows of X in a call of bootstrap_network
MaxTime == 2       \* timestamps are 0..MaxTime ticks
TicksPerYear == 2  \* resolution of a timestamp within its year
MaxGroupby == 2    \* groupby widths 1..MaxGroupby (years)
MaxIter == 2       \* n_iter is 1..MaxIter
MaxGroupedN == 3   \* rows of X in a direct call of the grouped computation
MaxYear == 3       \* years 0..MaxYear in a direct call of the grouped computation
MaxGraphN == 2     \* rows of a frequency matrix handed to to_graph
FreqDen == 2       \* frequencies 0/FreqDen .. FreqDen/FreqDen
MaxEvolvingN == 3  \* rows of a frequency matrix handed to evolving_graphs

\* tol=0.001 of all_argmin, in units of 0.0005
Tol == 2

VARIABLES
    pc,               \* position of the running call
    n_samples,        \* X.shape[0]
    time_index,       \* [kind: "None" | "False" | "array", at: row -> ticks]
    all_min,          \* bootstrap_neighbors(all_min=...)
    grouped_pairwise, \* bootstrap_neighbors(grouped_pairwise=...)
    groupby,          \* width in years (estimator) or grouping function (generator)
    n_iter,           \* bootstrap_neighbors(n_iter=...)
    X_draw,           \* a direct call of the grouped computation: the distances of the rows of X
    iteration,        \* completed iterations of the loop at line 116
    dm,               \* the distance matrix of the last iteration, after lines 120-122
    neighbors,        \* the tally / frequency matrix of bootstrap_neighbors
    plain,            \* the tally of the same feature draws under grouped_pairwise=False
    labels,           \* bootstrap_network(labels=...): [none: BOOLEAN, at: sequence]
    wrapped,          \* bootstrap_neighbors was called by bootstrap_network
    sigma,            \* threshold, a fraction
    only_best,        \* to_graph(only_best=...)
    choices,          \* the frequency matrix handed to to_graph / evolving_graphs
    G,                \* the graph under construction / returned
    order,            \* evolving_graphs: row order of choices_df after sort_index
    i,                \* evolving_graphs: the counter i
    yielded           \* evolving_graphs: the pairs yielded so far (graph as it was then)

vars == <<pc, n_samples, time_index, all_min, grouped_pairwise, groupby, n_iter,
          X_draw, iteration, dm, neighbors, plain, labels, wrapped, sigma, only_best,
          choices, G, order, i, yielded>>

\* ------------------------------------------------------------ floating point
Num(v) == <<"num", v>>
Inf == <<"inf", 0>>
NegInf == <<"ninf", 0>>
NaN == <<"nan", 0>>

IsNaN(x) == x[1] = "nan"

\* x < y on floats; every comparison with NaN is false
FLess(x, y) ==
    CASE IsNaN(x) \/ IsNaN(y) -> FALSE
      [] x[1] = "ninf" -> y[1] # "ninf"
      [] x[1] = "inf" -> FALSE
      [] y[1] = "ninf" -> FALSE
      [] y[1] = "inf" -> TRUE
      [] OTHER -> x[2] < y[2]

\* x - y on floats: inf - inf is NaN
FSub(x, y) ==
    CASE IsNaN(x) \/ IsNaN(y) -> NaN
      [] x[1] = "num" /\ y[1] = "num" -> Num(x[2] - y[2])
      [] x[1] = "num" -> IF y[1] = "inf" THEN NegInf ELSE Inf
      [] y[1] = "num" -> x
      [] OTHER -> IF x[1] = y[1] THEN NaN ELSE x

FAbs(x) ==
    CASE x[1] = "num" -> Num(IF x[2] < 0 THEN 0 - x[2] ELSE x[2])
      [] x[1] = "ninf" -> Inf
      [] OTHER -> x

\* ------------------------------------------------------------------ helpers
Rows(n) == 0 .. (n - 1)

SetMin(S) == CHOOSE x \in S : \A y \in S : x <= y

\* a fraction [num, den], den > 0
Frac(a, b) == [num |-> a, den |-> b]
FracGE(x, y) == x.num * y.den >= y.num * x.den
FracLess(x, y) == x.num * y.den < y.num * x.den

NoTime(n) == [kind |-> "None", at |-> [r \in Rows(n) |-> 0]]
FalseTime(n) == [kind |-> "False", at |-> [r \in Rows(n) |-> 0]]
TimeArrays(n) == {[kind |-> "array", at |-> t] : t \in [Rows(n) -> 0 .. MaxTime]}

\* DatetimeIndex.year
Year(t) == t \div TicksPerYear

\* ------------------------------------------------------ the metric on a draw
\* One draw of rnd_features fixes the reduced matrix _X and with it the distance
\* of every pair of rows.  A draw is given by the distance it assigns to each
\* unordered pair of different rows: a metric is symmetric and d(x, x) = 0.
\* Two distances are equal, less than the tolerance apart, or the tolerance apart.
Pairs(n) == {p \in Rows(n) \X Rows(n) : p[1] < p[2]}
Draws(n) == [Pairs(n) -> 0 .. Tol]
Metric(f, a, b) ==
    IF a = b THEN Num(0) ELSE Num(f[<<IF a < b THEN a ELSE b, IF a < b THEN b ELSE a>>])

\* sklearn's pairwise_distances(_X): every pair of rows
pairwise_distances(f, n) == [a \in Rows(n) |-> [b \in Rows(n) |-> Metric(f, a, b)]]

\* ------------------------------------------ time_grouped_pairwise_distances
\* line 49: the bucket of every row
grouped_indices(n, tix, width) ==
    [a \in Rows(n) |-> (Year(tix.at[a]) \div width) * width]

\* variant: only the rows of strictly earlier buckets are candidates
Y_indices_EarlierOnly(grouped, n, year) == {b \in Rows(n) : grouped[b] < year}

\* variant: only the rows of the chunk's own bucket are candidates
Y_indices_SameBucket(grouped, n, year) == {b \in Rows(n) : grouped[b] = year}

\* line 51: the candidate rows of the chunk of bucket `year`
Y_indices(grouped, n, year) == {b \in Rows(n) : grouped[b] <= year}

\* line 52: the query rows of the chunk of bucket `year`
X_indices(grouped, n, year) == {a \in Rows(n) : grouped[a] = year}

\* the loop of lines 50-55 over the distinct bucket values, ascending
RECURSIVE FillChunks(_, _, _, _, _)
FillChunks(m, pending, grouped, f, n) ==
    IF pending = {} THEN m
    ELSE LET year == SetMin(pending)
             Y == Y_indices(grouped, n, year)
             X == X_indices(grouped, n, year)
             filled ==
                 IF Cardinality(X) > 0 /\ Cardinality(Y) > 0
                 THEN [a \in Rows(n) |-> [b \in Rows(n) |->
                          IF a \in X /\ b \in Y THEN Metric(f, a, b) ELSE m[a][b]]]
                 ELSE m
         IN FillChunks(filled, pending \ {year}, grouped, f, n)

time_grouped_pairwise_distances(f, n, tix, width) ==
    LET zeros == [a \in Rows(n) |-> [b \in Rows(n) |-> Num(0)]]
        grouped == grouped_indices(n, tix, width)
    IN FillChunks(zeros, {grouped[a] : a \in Rows(n)}, grouped, f, n)

\* ------------------------------------------------------- bootstrap_neighbors
\* line 115: potential_neighbors[a][b] = time_index[b] <= time_index[a]
potential_neighbors(tix, n) ==
    [a \in Rows(n) |-> [b \in Rows(n) |-> tix.at[b] <= tix.at[a]]]

\* line 120
fill_diagonal(m, n) ==
    [a \in Rows(n) |-> [b \in Rows(n) |-> IF a = b THEN Inf ELSE m[a][b]]]

\* lines 121-122
MaskTime(m, tix, n) ==
    IF tix.kind # "None"
    THEN LET candidates == potential_neighbors(tix, n)
         IN [a \in Rows(n) |-> [b \in Rows(n) |->
                IF ~candidates[a][b] THEN NaN ELSE m[a][b]]]
    ELSE m

\* np.nanmin of one row: the least value that is not NaN, NaN if there is none
nanmin(row, n) ==
    LET real == {b \in Rows(n) : ~IsNaN(row[b])}
    IN IF real = {} THEN NaN
       ELSE row[CHOOSE b \in real : \A c \in real : ~FLess(row[c], row[b])]

\* line 60: the cells within tol of their row's minimum
all_argmin(m, n) ==
    LET mins == [a \in Rows(n) |-> nanmin(m[a], n)]
    IN {p \in Rows(n) \X Rows(n) :
           FLess(FAbs(FSub(m[p[1]][p[2]], mins[p[1]])), Num(Tol))}

\* np.nanargmin raises ValueError on a row that is all NaN
AllNaNSlice(m, n) == \E a \in Rows(n) : \A b \in Rows(n) : IsNaN(m[a][b])

\* np.nanargmin of one row: NaN is replaced by inf, then the first index of the
\* least value (np.argmin)
nanargmin(row, n) ==
    LET a == [b \in Rows(n) |-> IF IsNaN(row[b]) THEN Inf ELSE row[b]]
    IN SetMin({b \in Rows(n) : \A c \in Rows(n) : ~FLess(a[c], a[b])})

\* lines 123-126: the cells that get a vote in one iteration
Selected(m, n, allmin) ==
    IF allmin THEN all_argmin(m, n)
    ELSE {<<a, nanargmin(m[a], n)>> : a \in Rows(n)}

AddVotes(tally, cells, n) ==
    [a \in Rows(n) |-> [b \in Rows(n) |->
        IF <<a, b>> \in cells THEN Frac(tally[a][b].num + 1, tally[a][b].den)
        ELSE tally[a][b]]]

\* lines 119-122 for one draw
MaskedDistances(f, n, tix, grouped, width) ==
    MaskTime(fill_diagonal(IF grouped
                           THEN time_grouped_pairwise_distances(f, n, tix, width)
                           ELSE pairwise_distances(f, n), n), tix, n)

ZeroMatrix(n) == [a \in Rows(n) |-> [b \in Rows(n) |-> Frac(0, 1)]]
NoMatrix == <<>>
NoGraph == [raised |-> "", node |-> {}, date |-> <<>>, edge |-> {}]

\* one pass of the loop body, lines 117-127
Iterate ==
    /\ pc = "loop"
    /\ iteration < n_iter
    /\ \E f \in Draws(n_samples) :
          \E m \in {MaskedDistances(f, n_samples, time_index, grouped_pairwise, groupby)},
             ref \in {MaskedDistances(f, n_samples, time_index, FALSE, groupby)} :
             /\ dm' = m
             /\ IF ~all_min /\ AllNaNSlice(m, n_samples)
                THEN /\ pc' = "AllNaNSlice"
                     /\ UNCHANGED <<neighbors, plain>>
                ELSE /\ pc' = "loop"
                     /\ neighbors' = AddVotes(neighbors, Selected(m, n_samples, all_min), n_samples)
                     /\ plain' = AddVotes(plain, Selected(ref, n_samples, all_min), n_samples)
    /\ iteration' = iteration + 1
    /\ UNCHANGED <<n_samples, time_index, all_min, grouped_pairwise, groupby, n_iter, X_draw,
                   labels, wrapped, sigma, only_best, choices, G, order, i, yielded>>

Divide(tally, n, k) ==
    [a \in Rows(n) |-> [b \in Rows(n) |-> Frac(tally[a][b].num, tally[a][b].den * k)]]

\* lines 128-129: neighbors /= n_iter; return neighbors
Normalize ==
    /\ pc = "loop"
    /\ iteration = n_iter
    /\ neighbors' = Divide(neighbors, n_samples, n_iter)
    /\ plain' = Divide(plain, n_samples, n_iter)
    /\ pc' = "returned"
    /\ UNCHANGED <<n_samples, time_index, all_min, grouped_pairwise, groupby, n_iter, X_draw,
                   iteration, dm, labels, wrapped, sigma, only_best, choices, G, order, i, yielded>>

\* ------------------------------------------------------------------ to_graph
Sigmas == {Frac(0, 1), Frac(1, 2), Frac(1, 1)}

\* np.argmax of one row: the first index of the greatest value
argmax(row, n) ==
    SetMin({b \in Rows(n) : \A c \in Rows(n) : ~FracLess(row[b], row[c])})

\* variant: a frequency equal to sigma does not count
LinkedAbove(row, n, sig, best) ==
    IF best
    THEN LET b == argmax(row, n)
         IN IF FracLess(sig, row[b]) THEN {b} ELSE {}
    ELSE {b \in Rows(n) : FracLess(sig, row[b])}

\* lines 152-156: the columns row a is linked to
Linked(row, n, sig, best) ==
    IF best
    THEN LET b == argmax(row, n)
         IN IF FracGE(row[b], sig) THEN {b} ELSE {}
    ELSE {b \in Rows(n) : FracGE(row[b], sig)}

\* date=time_index[a] if time_index is not False else None
DateOf(tix, a) == IF tix.kind # "False" THEN <<tix.at[a]>> ELSE <<>>

\* lines 151 and 157-160 (and the same statements at lines 239-243): node
\* `index` with its date, then every linked node with its date and the edge to it
InsertRow(g, index, linked, tix) ==
    [g EXCEPT !.node = @ \cup {index} \cup linked,
              !.date = [x \in {index} \cup linked |-> DateOf(tix, x)] @@ @,
              !.edge = @ \cup {<<index, b>> : b \in linked}]

\* the loop of lines 150-160 from row a on
RECURSIVE ToGraphRows(_, _, _, _, _, _, _)
ToGraphRows(g, a, ch, n, tix, sig, best) ==
    IF a >= n THEN g
    ELSE ToGraphRows(InsertRow(g, a, Linked(ch[a], n, sig, best), tix),
                     a + 1, ch, n, tix, sig, best)

\* to_graph; time_index[i] on None raises TypeError at the first row
to_graph(ch, n, tix, sig, best) ==
    IF tix.kind = "None" /\ n > 0
    THEN [NoGraph EXCEPT !.raised = "TypeError"]
    ELSE ToGraphRows(NoGraph, 0, ch, n, tix, sig, best)

\* the caller hands the returned matrix to to_graph with the same time index
\* (the default, False, when there is none)
CallToGraph ==
    /\ pc = "returned"
    /\ ~wrapped
    /\ \E sig \in Sigmas, best \in BOOLEAN :
          /\ sigma' = sig
          /\ only_best' = best
          /\ G' = to_graph(neighbors, n_samples,
                           IF time_index.kind = "None" THEN FalseTime(n_samples)
                           ELSE time_index, sig, best)
    /\ choices' = neighbors
    /\ pc' = "graph"
    /\ UNCHANGED <<n_samples, time_index, all_min, grouped_pairwise, groupby, n_iter, X_draw,
                   iteration, dm, neighbors, plain, labels, wrapped, order, i, yielded>>

InitNeighbors ==
    /\ pc = "loop"
    /\ n_samples \in 2 .. MaxN
    /\ time_index \in {NoTime(n_samples)} \cup TimeArrays(n_samples)
    /\ all_min \in BOOLEAN
    /\ grouped_pairwise \in (IF time_index.kind = "None" THEN {FALSE} ELSE BOOLEAN)
    /\ groupby \in (IF grouped_pairwise THEN 1 .. MaxGroupby ELSE {5})
    /\ n_iter \in 1 .. MaxIter
    /\ X_draw = <<>>
    /\ iteration = 0
    /\ dm = NoMatrix
    /\ neighbors = ZeroMatrix(n_samples)
    /\ plain = ZeroMatrix(n_samples)
    /\ labels = [none |-> TRUE, at |-> <<>>]
    /\ wrapped = FALSE
    /\ sigma = Frac(1, 2)
    /\ only_best = FALSE
    /\ choices = NoMatrix
    /\ G = NoGraph
    /\ order = <<>>
    /\ i = 0
    /\ yielded = <<>>

NextNeighbors == Iterate \/ Normalize \/ CallToGraph

SpecNeighbors == InitNeighbors /\ [][NextNeighbors]_vars

\* ---------------------------------------------------------- bootstrap_network
\* set(labels)
LabelSet(l) == {l.at[k] : k \in DOMAIN l.at}

\* line 199 has returned; lines 202-204: set(None) raises TypeError, a wrong
\* number of unique labels raises ValueError
CheckLabels ==
    /\ pc = "returned"
    /\ wrapped
    /\ pc' = IF labels.none THEN "TypeError"
             ELSE IF Cardinality(LabelSet(labels)) # n_samples THEN "LabelsError"
             ELSE "checked"
    /\ UNCHANGED <<n_samples, time_index, all_min, grouped_pairwise, groupby, n_iter, X_draw,
                   iteration, dm, neighbors, plain, labels, wrapped, sigma, only_best,
                   choices, G, order, i, yielded>>

\* line 205: return to_graph(neighbors, time_index=time_index, ...)
ReturnGraph ==
    /\ pc = "checked"
    /\ choices' = neighbors
    /\ G' = to_graph(neighbors, n_samples, time_index, sigma, only_best)
    /\ pc' = IF G'.raised = "" THEN "graph" ELSE G'.raised
    /\ UNCHANGED <<n_samples, time_index, all_min, grouped_pairwise, groupby, n_iter, X_draw,
                   iteration, dm, neighbors, plain, labels, wrapped, sigma, only_best,
                   order, i, yielded>>

NoLabels == [none |-> TRUE, at |-> <<>>]
LabelChoices(n) ==
    {NoLabels, [none |-> FALSE, at |-> [k \in 1 .. n |-> k]],
               [none |-> FALSE, at |-> [k \in 1 .. n |-> 1]]}

\* a call of bootstrap_network: line 199 enters bootstrap_neighbors first
InitNetwork ==
    /\ pc = "loop"
    /\ n_samples \in 2 .. MaxWrappedN
    /\ time_index \in {NoTime(n_samples)} \cup TimeArrays(n_samples)
    /\ all_min \in BOOLEAN
    /\ grouped_pairwise = FALSE
    /\ groupby = 5
    /\ n_iter \in 1 .. MaxIter
    /\ X_draw = <<>>
    /\ iteration = 0
    /\ dm = NoMatrix
    /\ neighbors = ZeroMatrix(n_samples)
    /\ plain = ZeroMatrix(n_samples)
    /\ labels \in LabelChoices(n_samples)
    /\ wrapped = TRUE
    /\ sigma \in Sigmas
    /\ only_best \in BOOLEAN
    /\ choices = NoMatrix
    /\ G = NoGraph
    /\ order = <<>>
    /\ i = 0
    /\ yielded = <<>>

NextNetwork == Iterate \/ Normalize \/ CheckLabels \/ ReturnGraph

SpecNetwork == InitNetwork /\ [][NextNetwork]_vars

\* C7: with labels whose number of unique values differs from the number of
\* rows, bootstrap_network fails with the configuration error before any
\* bootstrap iteration has run; with labels omitted no error is raised and a
\* graph is returned.
C7_LabelsCheckedFirst ==
    /\ (~labels.none /\ Cardinality(LabelSet(labels)) # n_samples) => iteration = 0
    /\ labels.none => pc \notin {"TypeError", "LabelsError"}

\* ------------------------------ a call of time_grouped_pairwise_distances
\* the computation reads the year of a timestamp only (line 49): one timestamp
\* for each year
YearArrays(n) ==
    {[kind |-> "array", at |-> [a \in Rows(n) |-> y[a] * TicksPerYear]] :
        y \in [Rows(n) -> 0 .. MaxYear]}

ComputeGrouped ==
    /\ pc = "call"
    /\ dm' = time_grouped_pairwise_distances(X_draw, n_samples, time_index, groupby)
    /\ pc' = "computed"
    /\ UNCHANGED <<n_samples, time_index, all_min, grouped_pairwise, groupby, n_iter,
                   X_draw, iteration, neighbors, plain, labels, wrapped, sigma,
                   only_best, choices, G, order, i, yielded>>

InitGrouped ==
    /\ pc = "call"
    /\ n_samples \in 2 .. MaxGroupedN
    /\ time_index \in YearArrays(n_samples)
    /\ all_min = FALSE
    /\ grouped_pairwise = TRUE
    /\ groupby \in 1 .. MaxGroupby
    /\ n_iter = 1
    /\ X_draw \in Draws(n_samples)
    /\ iteration = 0
    /\ dm = NoMatrix
    /\ neighbors = NoMatrix
    /\ plain = NoMatrix
    /\ labels = NoLabels
    /\ wrapped = FALSE
    /\ sigma = Frac(1, 2)
    /\ only_best = FALSE
    /\ choices = NoMatrix
    /\ G = NoGraph
    /\ order = <<>>
    /\ i = 0
    /\ yielded = <<>>

NextGrouped == ComputeGrouped

SpecGrouped == InitGrouped /\ [][NextGrouped]_vars

\* ------------------------------------------------------- a call of to_graph

Freqs == {Frac(k, FreqDen) : k \in 0 .. FreqDen}
Matrices(n, values) == [Rows(n) -> [Rows(n) -> values]]

ToGraph ==
    /\ pc = "call"
    /\ G' = to_graph(choices, n_samples, time_index, sigma, only_best)
    /\ pc' = "graph"
    /\ UNCHANGED <<n_samples, time_index, all_min, grouped_pairwise, groupby, n_iter,
                   X_draw, iteration, dm, neighbors, plain, labels, wrapped, sigma,
                   only_best, choices, order, i, yielded>>

InitToGraph ==
    /\ pc = "call"
    /\ n_samples \in 2 .. MaxGraphN
    /\ time_index = FalseTime(n_samples)
    /\ all_min = FALSE
    /\ grouped_pairwise = FALSE
    /\ groupby = 5
    /\ n_iter = 1
    /\ X_draw = <<>>
    /\ iteration = 0
    /\ dm = NoMatrix
    /\ neighbors = NoMatrix
    /\ plain = NoMatrix
    /\ labels = NoLabels
    /\ wrapped = FALSE
    /\ sigma \in Sigmas
    /\ only_best \in BOOLEAN
    /\ choices \in Matrices(n_samples, Freqs)
    /\ G = NoGraph
    /\ order = <<>>
    /\ i = 0
    /\ yielded = <<>>

NextToGraph == ToGraph

SpecToGraph == InitToGraph /\ [][NextToGraph]_vars

\* -------------------------------------------------------------- evolving_graphs

\* the grouping functions: lambda x: x, lambda x: x.year, and the position of
\* the timestamp within its year (as lambda x: x.month)
GroupFunctions == {"identity", "year", "month"}
GroupKey(fn, t) ==
    CASE fn = "identity" -> t
      [] fn = "year" -> Year(t)
      [] OTHER -> t % TicksPerYear

\* line 232, sort_index: the rows in ascending order of their timestamps.  An
\* index that is ascending already is left as it is; otherwise the rows are
\* sorted with numpy's quicksort, which is not stable, so rows with equal
\* timestamps come out in either order.
IsAscending(n, tix) == \A a, b \in Rows(n) : a < b => tix.at[a] <= tix.at[b]
SortedOrders(n, tix) ==
    IF IsAscending(n, tix) THEN {[k \in 1 .. n |-> k - 1]}
    ELSE {o \in [1 .. n -> Rows(n)] :
             /\ \A k, l \in 1 .. n : k # l => o[k] # o[l]
             /\ \A k, l \in 1 .. n : k < l => tix.at[o[k]] <= tix.at[o[l]]}

\* line 235, groupby: the keys not yet visited, and the rows of one group in the
\* order of the sorted frame
KeysAfter(fn, tix, n, done) ==
    {GroupKey(fn, tix.at[r]) : r \in Rows(n)} \ {done[k].group_id : k \in 1 .. Len(done)}
Stories(ord, fn, tix, key) ==
    SelectSeq(ord, LAMBDA r : GroupKey(fn, tix.at[r]) = key)

\* variant: the graph is built anew for every row
EvolvingRowFresh(g, index, row, n, tix, sig) ==
    InsertRow(NoGraph, index, Linked(row, n, sig, FALSE), tix)

\* lines 237-243: one row of a group, inserted as node `index`
EvolvingRow(g, index, row, n, tix, sig) ==
    InsertRow(g, index, Linked(row, n, sig, FALSE), tix)

\* lines 236-244: the rows of one group, the counter starting at `index`
RECURSIVE EvolvingGroup(_, _, _, _, _, _, _)
EvolvingGroup(g, index, stories, ch, n, tix, sig) ==
    IF stories = <<>> THEN g
    ELSE EvolvingGroup(EvolvingRow(g, index, ch[Head(stories)], n, tix, sig),
                       index + 1, Tail(stories), ch, n, tix, sig)

\* next() on the generator: on the first call lines 232-234, then the next group
\* of line 235 up to the yield of line 245
Resume ==
    /\ pc \in {"created", "suspended"}
    /\ KeysAfter(groupby, time_index, n_samples, yielded) # {}
    /\ \E ord \in (IF pc = "created" THEN SortedOrders(n_samples, time_index)
                   ELSE {order}) :
          LET group_id == SetMin(KeysAfter(groupby, time_index, n_samples, yielded))
              stories == Stories(ord, groupby, time_index, group_id)
          IN /\ order' = ord
             /\ G' = EvolvingGroup(G, i, stories, choices, n_samples, time_index, sigma)
             /\ i' = i + Len(stories)
             /\ yielded' = Append(yielded, [group_id |-> group_id, G |-> G'])
    /\ pc' = "suspended"
    /\ UNCHANGED <<n_samples, time_index, all_min, grouped_pairwise, groupby, n_iter,
                   X_draw, iteration, dm, neighbors, plain, labels, wrapped, sigma,
                   only_best, choices>>

\* next() after the last group: the loop of line 235 ends, StopIteration
Exhaust ==
    /\ pc = "suspended"
    /\ KeysAfter(groupby, time_index, n_samples, yielded) = {}
    /\ pc' = "exhausted"
    /\ UNCHANGED <<n_samples, time_index, all_min, grouped_pairwise, groupby, n_iter,
                   X_draw, iteration, dm, neighbors, plain, labels, wrapped, sigma,
                   only_best, choices, G, order, i, yielded>>

InitEvolving ==
    /\ pc = "created"
    /\ n_samples \in 2 .. MaxEvolvingN
    /\ time_index \in TimeArrays(n_samples)
    /\ all_min = FALSE
    /\ grouped_pairwise = FALSE
    /\ groupby \in GroupFunctions
    /\ n_iter = 1
    /\ X_draw = <<>>
    /\ iteration = 0
    /\ dm = NoMatrix
    /\ neighbors = NoMatrix
    /\ plain = NoMatrix
    /\ labels = NoLabels
    /\ wrapped = FALSE
    /\ sigma \in Sigmas
    /\ only_best = FALSE
    /\ choices \in Matrices(n_samples, {Frac(0, 1), Frac(1, 1)})
    /\ G = NoGraph
    /\ order = <<>>
    /\ i = 0
    /\ yielded = <<>>

NextEvolving == Resume \/ Exhaust

SpecEvolving == InitEvolving /\ [][NextEvolving]_vars

\* ------------------------------------------- claims about bootstrap_neighbors
Returned == pc \in {"returned", "graph"}
Timed == time_index.kind = "array"
Time(a) == time_index.at[a]
\* row a has no candidate other than itself at or before its own time
NoCandidate(a) == \A b \in Rows(n_samples) \ {a} : Time(b) > Time(a)
Bucket(a) == (Year(Time(a)) \div groupby) * groupby
Distance(a, b) == Metric(X_draw, a, b)

\* C1: in the frequency matrix returned with a time index, F(i,j) = 0 whenever
\* time(j) > time(i), in either selection mode and for any draws.
C1_Causality ==
    (Returned /\ Timed) =>
        \A a, b \in Rows(n_samples) : Time(b) > Time(a) => neighbors[a][b].num = 0

\* C2: every entry of the returned frequency matrix lies in [0, 1] and every
\* diagonal entry is exactly 0.
C2_RangeAndDiagonal ==
    Returned =>
        \A a, b \in Rows(n_samples) :
            /\ FracGE(neighbors[a][b], Frac(0, 1))
            /\ FracGE(Frac(1, 1), neighbors[a][b])
            /\ neighbors[a][a].num = 0

\* C5: every edge (i -> j) of the graph to_graph builds from the matrix returned
\* with a time index has j # i and time(j) <= time(i), for every sigma in [0, 1].
C5_EdgesCausal ==
    (pc = "graph" /\ Timed) =>
        \A e \in G.edge : e[1] # e[2] /\ Time(e[2]) <= Time(e[1])

\* C8: with a time index, a row with no candidate j # i at or before its time
\* gets no vote in any iteration, so its returned row is all zeros, and no error
\* is raised.
C8_NoCandidateRowIsZero ==
    /\ pc # "AllNaNSlice"
    /\ Timed =>
          \A a \in Rows(n_samples) :
              NoCandidate(a) => \A b \in Rows(n_samples) : neighbors[a][b].num = 0

\* C10: with grouped_pairwise=True and a time index, every entry the grouped
\* computation leaves un-computed is masked (NaN) before selection, and the
\* tally equals that of the same draws with grouped_pairwise=False.
C10_GroupedEqualsPlain ==
    (grouped_pairwise /\ Timed) =>
        /\ iteration > 0 =>
              \A a, b \in Rows(n_samples) : Bucket(b) > Bucket(a) => IsNaN(dm[a][b])
        /\ neighbors = plain

\* a grouped run has returned, some entry was left un-computed, and the row of
\* the later bucket voted for the row of the earlier one
C10_Witness ==
    /\ pc = "returned"
    /\ grouped_pairwise
    /\ \E a, b \in Rows(n_samples) :
          /\ Bucket(b) > Bucket(a)
          /\ dm[a][b] = NaN
          /\ neighbors[b][a].num > 0

\* C6: the matrix of time_grouped_pairwise_distances holds d(row i, row j) at
\* every causal pair, year(j) <= year(i); an entry is left at 0 only where the
\* bucket of j is later than the bucket of i.
C6_GroupedMatchesPairwise ==
    pc = "computed" =>
        \A a, b \in Rows(n_samples) :
            /\ Year(Time(b)) <= Year(Time(a)) => dm[a][b] = Distance(a, b)
            /\ dm[a][b] # Distance(a, b) => Bucket(b) > Bucket(a)

\* a computed matrix over three buckets: a causal pair across two buckets
\* holds its non-zero distance and the opposite entry was left at 0
C6_Witness ==
    /\ pc = "computed"
    /\ Cardinality({Bucket(a) : a \in Rows(n_samples)}) = 3
    /\ \E a, b \in Rows(n_samples) :
          /\ Bucket(b) < Bucket(a)
          /\ Distance(a, b) # Num(0)
          /\ dm[a][b] = Distance(a, b)
          /\ dm[b][a] = Num(0)

\* ------------------------------------ claims about to_graph, evolving_graphs
Out(g, a) == {e[2] : e \in {d \in g.edge : d[1] = a}}
Freq(a, b) == choices[a][b]
\* column b holds the maximum of row a and no earlier column does
FirstMaximum(a, b) ==
    /\ \A c \in Rows(n_samples) : FracGE(Freq(a, b), Freq(a, c))
    /\ \A c \in Rows(n_samples) : c < b => ~FracGE(Freq(a, c), Freq(a, b))

\* C4: with only_best=True every node has at most one outgoing edge, to the
\* lowest-index column of maximum frequency and only when that frequency is
\* >= sigma; with only_best=False edge (i,j) exists iff F(i,j) >= sigma.
C4_ToGraphEdges ==
    pc = "graph" =>
        \A a \in Rows(n_samples) :
            IF only_best
            THEN /\ Cardinality(Out(G, a)) <= 1
                 /\ \A b \in Rows(n_samples) :
                        b \in Out(G, a) <=> (FirstMaximum(a, b) /\ FracGE(Freq(a, b), sigma))
            ELSE \A b \in Rows(n_samples) :
                        b \in Out(G, a) <=> FracGE(Freq(a, b), sigma)

\* a best-only graph in which a row with its maximum tied over two columns is
\* linked to the first of them and another row, below sigma, is linked to none
C4_Witness ==
    /\ pc = "graph"
    /\ only_best
    /\ \E a, b, c \in Rows(n_samples) :
          /\ b < c
          /\ Freq(a, b) = Freq(a, c)
          /\ Out(G, a) = {b}
    /\ \E a \in Rows(n_samples) : Out(G, a) = {} /\ \E b \in Rows(n_samples) : Freq(a, b).num > 0

\* C3: the graph yielded last by evolving_graphs, all groups consumed, has the
\* node set and the edge set of to_graph(F, time_index, sigma, only_best=False),
\* for a time index in any order.
C3_FinalEqualsToGraph ==
    pc = "exhausted" =>
        LET direct == to_graph(choices, n_samples, time_index, sigma, FALSE)
        IN /\ G.node = direct.node
           /\ G.edge = direct.edge

Key(r) == GroupKey(groupby, Time(r))
Position(r) == CHOOSE k \in 1 .. n_samples : order[k] = r
\* the value of the counter i at which row r is inserted: the rows of earlier
\* groups, and the rows of its own group that stand before it in the sorted frame
IndexOf(r) ==
    Cardinality({q \in Rows(n_samples) :
        \/ Key(q) < Key(r)
        \/ Key(q) = Key(r) /\ Position(q) < Position(r)})
UpTo(key) == {r \in Rows(n_samples) : Key(r) <= key}
Threshold(r) == {b \in Rows(n_samples) : FracGE(Freq(r, b), sigma)}

\* C9: one pair is yielded per distinct group key, in ascending order of the
\* keys; every row is processed exactly once; the graph of each yield contains
\* the graph of every earlier yield, and holds exactly the nodes and edges
\* inserted for the rows of the groups yielded so far.
C9_YieldsCumulative ==
    /\ \A k, l \in 1 .. Len(yielded) :
          k < l => /\ yielded[k].group_id < yielded[l].group_id
                   /\ yielded[k].G.node \subseteq yielded[l].G.node
                   /\ yielded[k].G.edge \subseteq yielded[l].G.edge
    /\ \A k \in 1 .. Len(yielded) :
          LET rows == UpTo(yielded[k].group_id)
          IN /\ yielded[k].group_id \in {Key(r) : r \in Rows(n_samples)}
             /\ yielded[k].G.node =
                    UNION {{IndexOf(r)} \cup Threshold(r) : r \in rows}
             /\ yielded[k].G.edge =
                    UNION {{<<IndexOf(r), b>> : b \in Threshold(r)} : r \in rows}
             /\ {IndexOf(r) : r \in rows} = Rows(Cardinality(rows))
             /\ k = Len(yielded) => (i = Cardinality(rows) /\ G = yielded[k].G)
    /\ pc = "exhausted" =>
          /\ {yielded[k].group_id : k \in 1 .. Len(yielded)} = {Key(r) : r \in Rows(n_samples)}
          /\ i = n_samples

\* the generator is exhausted after three yields, the second of which added an
\* edge to the graph of the first
C9_Witness ==
    /\ pc = "exhausted"
    /\ Len(yielded) = 3
    /\ yielded[1].G.edge # {}
    /\ yielded[1].G.edge # yielded[2].G.edge
    /\ yielded[2].G.node # yielded[3].G.node
====
